---- MODULE Spec2Model ----
(***************************************************************************)
(* Constraint-propagation Sudoku engine (package sudoku): board topology,  *)
(* assign/eliminate propagation, parseBoard, isSolved and the backtracking *)
(* search.  The recursive functions run as a call stack of frames, one     *)
(* step per loop iteration, call and return; a call started by the caller  *)
(* runs to its return before the caller can do anything else.              *)
(*                                                                         *)
(* The source builds the 9x9 grid with 3x3 blocks (the literal 3 in New).  *)
(* The algorithms are written against unitlist/units/peers only, so the    *)
(* model keeps every loop of the source and instantiates the block side    *)
(* with BlockSide; all other sizes (grid side, number of squares, full     *)
(* digit set) are derived from it exactly as 9, 81 and 1..9 derive from 3. *)
(***************************************************************************)
EXTENDS Integers, Sequences, FiniteSets, TLC

\* Side of a block: "for row := 0; row < 3" in New. 2 gives the 4x4 grid.
BlockSide == 2

\* Side of the grid, number of digits ("row < 9", "d <= 9").
N == BlockSide * BlockSide

\* Number of squares ("make(Values, 81)").
NumSquares == N * N

Squares == 0 .. (NumSquares - 1)

AllDigits == 1 .. N

\* index calculates the linear index of a square from its row and column.
index(row, col) == row * N + col

(***************************************************************************)
(* Digits: the candidate set of one square.                                *)
(***************************************************************************)
isMember(ds, d) == d \in ds

remove(ds, d) == ds \ {d}

add(ds, d) == ds \cup {d}

size(ds) == Cardinality(ds)

\* Only called on sets of size 1.
singleMemberDigit(ds) == CHOOSE d \in ds : TRUE

fullDigitsSet == AllDigits

(***************************************************************************)
(* Topology, as built by New: row units, then column units, then blocks.   *)
(***************************************************************************)
rowUnit(row) == [c \in 1 .. N |-> index(row, c - 1)]

colUnit(col) == [r \in 1 .. N |-> index(r - 1, col)]

blockUnit(blockRow, blockCol) ==
    [k \in 1 .. N |-> index(blockRow * BlockSide + ((k - 1) \div BlockSide),
                            blockCol * BlockSide + ((k - 1) % BlockSide))]

unitlist ==
    [u \in 1 .. (3 * N) |->
        IF u <= N THEN rowUnit(u - 1)
        ELSE IF u <= 2 * N THEN colUnit(u - N - 1)
        ELSE blockUnit((u - 2 * N - 1) \div BlockSide,
                       (u - 2 * N - 1) % BlockSide)]

\* slices.Index(unit, i) >= 0
InUnit(unit, i) == \E k \in 1 .. Len(unit) : unit[k] = i

\* units[i] is the list of all units that contain i, in unitlist order.
units == [i \in Squares |-> SelectSeq(unitlist, LAMBDA unit : InUnit(unit, i))]

RECURSIVE appendPeers(_, _, _, _)
\* Inner loop of the peers construction: append the squares of unit, from
\* position k on, that are not i and not yet in acc.
appendPeers(acc, unit, i, k) ==
    IF k > Len(unit) THEN acc
    ELSE IF unit[k] # i /\ ~InUnit(acc, unit[k])
         THEN appendPeers(Append(acc, unit[k]), unit, i, k + 1)
         ELSE appendPeers(acc, unit, i, k + 1)

RECURSIVE collectPeers(_, _, _)
collectPeers(acc, i, u) ==
    IF u > Len(units[i]) THEN acc
    ELSE collectPeers(appendPeers(acc, units[i][u], i, 1), i, u + 1)

\* peers collected from the row and the column of i only.
peersOfRowAndColumn ==
    [i \in Squares |-> appendPeers(appendPeers(<<>>, units[i][1], i, 1), units[i][2], i, 1)]

\* peers[i] is the list of unique squares sharing a unit with i.
peers == [i \in Squares |-> collectPeers(<<>>, i, 1)]

(***************************************************************************)
(* Boards.                                                                 *)
(***************************************************************************)
\* emptyBoard: every square holds the full candidate set.
emptyBoard == [sq \in Squares |-> fullDigitsSet]

\* The nil Values returned next to an error.
nil == <<>>

\* slices.Clone(values): a board with the same contents and its own storage.
Clone(values) == [sq \in DOMAIN values |-> values[sq]]

(***************************************************************************)
(* isSolved.                                                               *)
(***************************************************************************)
RECURSIVE isSolvedUnitNoCover(_, _, _, _)
\* isSolved without "if dset != fullDigitsSet() { return false }".
isSolvedUnitNoCover(values, unit, i, dset) ==
    IF i > Len(unit) THEN TRUE
    ELSE IF size(values[unit[i]]) # 1 THEN FALSE
         ELSE isSolvedUnitNoCover(values, unit, i + 1,
                                  add(dset, singleMemberDigit(values[unit[i]])))

RECURSIVE isSolvedUnit(_, _, _, _)
\* The inner loop of isSolved over the squares of one unit, from the i-th
\* on, with the digits seen so far in dset; ends with the coverage test.
isSolvedUnit(values, unit, i, dset) ==
    IF i > Len(unit) THEN dset = fullDigitsSet
    ELSE IF size(values[unit[i]]) # 1 THEN FALSE
         ELSE isSolvedUnit(values, unit, i + 1,
                           add(dset, singleMemberDigit(values[unit[i]])))

RECURSIVE isSolvedFrom(_, _)
\* The outer loop of isSolved over unitlist, from the u-th unit on.
isSolvedFrom(values, u) ==
    IF u > Len(unitlist) THEN TRUE
    ELSE IF ~isSolvedUnit(values, unitlist[u], 1, {}) THEN FALSE
         ELSE isSolvedFrom(values, u + 1)

\* isSolved checks whether values is a properly solved board.
isSolved(values) == isSolvedFrom(values, 1)

(***************************************************************************)
(* Pieces of assign, eliminate, search and parseBoard.                     *)
(***************************************************************************)
\* assign that eliminates only the digits above the one it keeps.
assignEliminatesAbove(ds, digit, d) == isMember(ds, d) /\ d > digit

\* assign: "values[square].isMember(d) && d != digit".
assignEliminates(ds, digit, d) == isMember(ds, d) /\ d # digit

\* dplaces whose loop over the unit stops at the first square it finds.
dplacesFirstOnly(values, unit, digit) ==
    LET found == SelectSeq(unit, LAMBDA sq : isMember(values[sq], digit))
    IN  IF Len(found) > 1 THEN <<found[1]>> ELSE found

\* eliminate: dplaces, the squares of unit that have digit as a candidate.
dplaces(values, unit, digit) ==
    SelectSeq(unit, LAMBDA sq : isMember(values[sq], digit))

\* "var minSize int = 9": the start value of the minimum, the grid side.
minSizeStart == N

RECURSIVE squareScan(_, _, _, _)
\* search: the scan for the square to try, from square sq on.
squareScan(values, sq, minSize, squareToTry) ==
    IF sq >= NumSquares THEN squareToTry
    ELSE IF size(values[sq]) > 1 /\ size(values[sq]) < minSize
         THEN squareScan(values, sq + 1, size(values[sq]), sq)
         ELSE squareScan(values, sq + 1, minSize, squareToTry)

\* The runes parseBoard keeps: the digits (of this grid) and the dot.
DigitRunes == SubSeq(<<"0", "1", "2", "3", "4", "5", "6", "7", "8", "9">>, 1, N + 1)

IsDigitRune(r) == \E k \in 1 .. Len(DigitRunes) : DigitRunes[k] = r

\* uint16(r) - uint16('0')
RuneDigit(r) == (CHOOSE k \in 1 .. Len(DigitRunes) : DigitRunes[k] = r) - 1

\* parseBoard without the "else if r == '.'" branch.
scanRunesNoDot(str) ==
    LET kept == SelectSeq(str, LAMBDA r : IsDigitRune(r))
    IN  [k \in 1 .. Len(kept) |-> RuneDigit(kept[k])]

\* parseBoard: dgs, one number per supported rune, all other runes ignored.
scanRunes(str) ==
    LET kept == SelectSeq(str, LAMBDA r : IsDigitRune(r) \/ r = ".")
    IN  [k \in 1 .. Len(kept) |-> IF kept[k] = "." THEN 0 ELSE RuneDigit(kept[k])]

(***************************************************************************)
(* State.                                                                  *)
(***************************************************************************)
VARIABLES
    boards,   \* boards[1] is the caller's board; above it, one vcopy per
              \* trial of search that is still in use
    stack,    \* the call stack, the running call last
    rv,       \* the bool the last return handed back (for parseBoard: err == nil)
    op,       \* the call the caller made last
    text,     \* the string given to parseBoard
    err       \* the error parseBoard returned

vars == <<boards, stack, rv, op, text, err>>

\* err == nil
NoError == <<"nil">>

\* fmt.Errorf("got only %v digits in board, want 81", len(dgs))
DigitsError(n) == <<"digits", n>>

\* fmt.Errorf("contradiction when assigning %v to square %v", d, sq)
ContradictionError(d, sq) == <<"contradiction", d, sq>>

\* A frame: the function, where it stands, its arguments and its locals
\* (i: the loop variable; rem: remaining of eliminate).
Frame(fn, pc, square, digit, i) ==
    [fn |-> fn, pc |-> pc, square |-> square, digit |-> digit, i |-> i, rem |-> 0]

\* What the caller called: had says whether digit was a candidate of square
\* when the call was made; byAssign that the board was built by assign only;
\* before is the board an assign or eliminate call was given (nil otherwise).
Call(name, square, digit, had, byAssign, before) ==
    [name |-> name, square |-> square, digit |-> digit, had |-> had,
     byAssign |-> byAssign, before |-> before]

Idle == stack = <<>>

Top == stack[Len(stack)]

\* The board the running call works on.
Board == boards[Len(boards)]

\* The board the last call handed back (vresult of search, values of the rest).
out == boards[Len(boards)]

Running(fn, pc) == ~Idle /\ Top.fn = fn /\ Top.pc = pc

SetTop(f) == [stack EXCEPT ![Len(stack)] = f]

SetBoard(b) == [boards EXCEPT ![Len(boards)] = b]

\* search without the Clone: the failed trial has written into values.
KeepTrial(bs) == Append(SubSeq(bs, 1, Len(bs) - 2), bs[Len(bs)])

\* search drops vcopy after a failed trial; the board below it is untouched.
DiscardTrial(bs) == SubSeq(bs, 1, Len(bs) - 1)

\* return b
Return(b) ==
    /\ stack' = SubSeq(stack, 1, Len(stack) - 1)
    /\ rv' = b

\* Move on in the running frame.
Goto(f) ==
    /\ stack' = SetTop(f)
    /\ UNCHANGED rv

\* Call g from the running frame, which waits as f.
Invoke(f, g) ==
    /\ stack' = Append(SetTop(f), g)
    /\ UNCHANGED rv

(***************************************************************************)
(* assign.                                                                 *)
(***************************************************************************)
\* for d := uint16(1); d <= 9; d++ { if ... { if !s.eliminate(...) ... } }
AssignLoop ==
    /\ Running("assign", "loop")
    /\ LET f == Top
       IN  IF f.i > N THEN Return(TRUE)
           ELSE IF assignEliminates(Board[f.square], f.digit, f.i)
                THEN Invoke([f EXCEPT !.pc = "called"],
                            Frame("eliminate", "entry", f.square, f.i, 0))
                ELSE Goto([f EXCEPT !.i = @ + 1])
    /\ UNCHANGED <<boards, op, text, err>>

\* assign that does not look at what eliminate returned.
AssignCalledIgnoresFailure ==
    /\ Running("assign", "called")
    /\ Goto([Top EXCEPT !.pc = "loop", !.i = @ + 1])
    /\ UNCHANGED <<boards, op, text, err>>

\* if !s.eliminate(values, square, d) { return false }
AssignCalled ==
    /\ Running("assign", "called")
    /\ IF ~rv THEN Return(FALSE)
       ELSE Goto([Top EXCEPT !.pc = "loop", !.i = @ + 1])
    /\ UNCHANGED <<boards, op, text, err>>

(***************************************************************************)
(* eliminate.                                                              *)
(***************************************************************************)
\* eliminate without "if !values[square].isMember(digit) { return true }".
EliminateEntryNoMemberTest ==
    /\ Running("eliminate", "entry")
    /\ LET f == Top
           removed == [Board EXCEPT ![f.square] = remove(@, f.digit)]
       IN  /\ boards' = SetBoard(removed)
           /\ IF size(removed[f.square]) = 0 THEN Return(FALSE)
              ELSE IF size(removed[f.square]) = 1
                   THEN Goto([f EXCEPT !.pc = "peers", !.i = 1,
                              !.rem = singleMemberDigit(removed[f.square])])
                   ELSE Goto([f EXCEPT !.pc = "units", !.i = 1])
    /\ UNCHANGED <<op, text, err>>

\* From the entry to the switch on the size.
EliminateEntry ==
    /\ Running("eliminate", "entry")
    /\ LET f == Top
           removed == [Board EXCEPT ![f.square] = remove(@, f.digit)]
       IN  IF ~isMember(Board[f.square], f.digit)
           THEN Return(TRUE) /\ UNCHANGED boards
           ELSE /\ boards' = SetBoard(removed)
                /\ IF size(removed[f.square]) = 0 THEN Return(FALSE)
                   ELSE IF size(removed[f.square]) = 1
                        THEN Goto([f EXCEPT !.pc = "peers", !.i = 1,
                                   !.rem = singleMemberDigit(removed[f.square])])
                        ELSE Goto([f EXCEPT !.pc = "units", !.i = 1])
    /\ UNCHANGED <<op, text, err>>

\* for _, peer := range s.peers[square] { if !s.eliminate(values, peer, remaining) ...
EliminatePeers ==
    /\ Running("eliminate", "peers")
    /\ LET f == Top
       IN  IF f.i > Len(peers[f.square])
           THEN Goto([f EXCEPT !.pc = "units", !.i = 1])
           ELSE Invoke([f EXCEPT !.pc = "peerCalled"],
                       Frame("eliminate", "entry", peers[f.square][f.i], f.rem, 0))
    /\ UNCHANGED <<boards, op, text, err>>

\* eliminate whose loop over the peers does not move on to the next peer.
EliminatePeerCalledStays ==
    /\ Running("eliminate", "peerCalled")
    /\ IF ~rv THEN Return(FALSE)
       ELSE Goto([Top EXCEPT !.pc = "peers"])
    /\ UNCHANGED <<boards, op, text, err>>

EliminatePeerCalled ==
    /\ Running("eliminate", "peerCalled")
    /\ IF ~rv THEN Return(FALSE)
       ELSE Goto([Top EXCEPT !.pc = "peers", !.i = @ + 1])
    /\ UNCHANGED <<boards, op, text, err>>

\* for _, unit := range s.units[square] { ... }
EliminateUnits ==
    /\ Running("eliminate", "units")
    /\ LET f == Top
       IN  IF f.i > Len(units[f.square]) THEN Return(TRUE)
           ELSE LET places == dplaces(Board, units[f.square][f.i], f.digit)
                IN  IF Len(places) = 0 THEN Return(FALSE)
                    ELSE IF Len(places) = 1
                         THEN Invoke([f EXCEPT !.pc = "unitCalled"],
                                     Frame("assign", "loop", places[1], f.digit, 1))
                         ELSE Goto([f EXCEPT !.i = @ + 1])
    /\ UNCHANGED <<boards, op, text, err>>

EliminateUnitCalled ==
    /\ Running("eliminate", "unitCalled")
    /\ IF ~rv THEN Return(FALSE)
       ELSE Goto([Top EXCEPT !.pc = "units", !.i = @ + 1])
    /\ UNCHANGED <<boards, op, text, err>>

(***************************************************************************)
(* search.  The values of a search frame is the board on top of boards     *)
(* whenever that frame runs.                                               *)
(***************************************************************************)
\* The scan for squareToTry and the test for the solved board.
SearchEntry ==
    /\ Running("search", "entry")
    /\ LET squareToTry == squareScan(Board, 0, minSizeStart, -1)
       IN  IF squareToTry = -1 THEN Return(TRUE)
           ELSE Goto([Top EXCEPT !.pc = "digits", !.square = squareToTry, !.i = 1])
    /\ UNCHANGED <<boards, op, text, err>>

\* for d := uint16(1); d <= 9; d++ { if member { vcopy := Clone; assign(vcopy, ...
SearchDigits ==
    /\ Running("search", "digits")
    /\ LET f == Top
       IN  IF f.i > N THEN Return(FALSE) /\ UNCHANGED boards
           ELSE IF isMember(Board[f.square], f.i)
                THEN /\ boards' = Append(boards, Clone(Board))
                     /\ Invoke([f EXCEPT !.pc = "assigned"],
                               Frame("assign", "loop", f.square, f.i, 1))
                ELSE Goto([f EXCEPT !.i = @ + 1]) /\ UNCHANGED boards
    /\ UNCHANGED <<op, text, err>>

\* search that gives up at the first trial whose assign fails.
SearchAssignedGiveUp ==
    /\ Running("search", "assigned")
    /\ IF rv
       THEN /\ Invoke([Top EXCEPT !.pc = "searched"], Frame("search", "entry", -1, 0, 0))
            /\ UNCHANGED boards
       ELSE /\ Return(FALSE)
            /\ boards' = DiscardTrial(boards)
    /\ UNCHANGED <<op, text, err>>

\* if s.assign(vcopy, squareToTry, d) { ... s.search(vcopy) ...
SearchAssigned ==
    /\ Running("search", "assigned")
    /\ IF rv
       THEN /\ Invoke([Top EXCEPT !.pc = "searched"], Frame("search", "entry", -1, 0, 0))
            /\ UNCHANGED boards
       ELSE /\ Goto([Top EXCEPT !.pc = "digits", !.i = @ + 1])
            /\ boards' = DiscardTrial(boards)
    /\ UNCHANGED <<op, text, err>>

\* if vresult, solved := s.search(vcopy); solved { return vresult, true }
SearchSearched ==
    /\ Running("search", "searched")
    /\ IF rv
       THEN Return(TRUE) /\ UNCHANGED boards
       ELSE /\ Goto([Top EXCEPT !.pc = "digits", !.i = @ + 1])
            /\ boards' = DiscardTrial(boards)
    /\ UNCHANGED <<op, text, err>>

(***************************************************************************)
(* parseBoard.                                                             *)
(***************************************************************************)
\* The scan of the runes, the length test and "values := emptyBoard()".
ParseEntry ==
    /\ Running("parse", "entry")
    /\ IF Len(scanRunes(text)) # NumSquares
       THEN /\ Return(FALSE)
            /\ boards' = <<nil>>
            /\ err' = DigitsError(Len(scanRunes(text)))
       ELSE /\ Goto([Top EXCEPT !.pc = "loop", !.i = 0])
            /\ boards' = <<emptyBoard>>
            /\ UNCHANGED err
    /\ UNCHANGED <<op, text>>

\* for sq, d := range dgs { if d != 0 && !s.assign(values, sq, d) ...
ParseLoop ==
    /\ Running("parse", "loop")
    /\ LET f == Top
           dgs == scanRunes(text)
       IN  IF f.i >= Len(dgs) THEN Return(TRUE)
           ELSE IF dgs[f.i + 1] # 0
                THEN Invoke([f EXCEPT !.pc = "called", !.digit = dgs[f.i + 1]],
                            Frame("assign", "loop", f.i, dgs[f.i + 1], 1))
                ELSE Goto([f EXCEPT !.i = @ + 1])
    /\ UNCHANGED <<boards, op, text, err>>

\* return nil, fmt.Errorf("contradiction ...")
ParseCalled ==
    /\ Running("parse", "called")
    /\ IF ~rv
       THEN /\ Return(FALSE)
            /\ boards' = <<nil>>
            /\ err' = ContradictionError(Top.digit, Top.i)
       ELSE /\ Goto([Top EXCEPT !.pc = "loop", !.i = @ + 1])
            /\ UNCHANGED <<boards, err>>
    /\ UNCHANGED <<op, text>>

(***************************************************************************)
(* The inputs of the callers.                                              *)
(***************************************************************************)
\* The <<square, digit>> pairs passed to assign and to eliminate: the first
\* MaxAssignInputs, MaxEliminateInputs entries of these lists.
MaxAssignInputs == 3
MaxEliminateInputs == 5

AssignInputs == << <<5, 2>>, <<5, 1>>, <<0, 1>>, <<0, 2>>, <<6, 2>> >>

EliminateInputs ==
    << <<7, 1>>, <<13, 1>>, <<15, 1>>, <<10, 3>>, <<10, 4>>, <<10, 2>>, <<10, 1>> >>

Min(a, b) == IF a < b THEN a ELSE b

AssignCalls ==
    {AssignInputs[k] : k \in 1 .. Min(MaxAssignInputs, Len(AssignInputs))}

EliminateCalls ==
    {EliminateInputs[k] : k \in 1 .. Min(MaxEliminateInputs, Len(EliminateInputs))}

\* The puzzles given to parseBoard, one number per square, 0 for unassigned:
\* every way to fill the first MaxGivens squares of GivenSquares, and three
\* fixed puzzles (solved by propagation alone; needing search; 17 tokens).
MaxGivens == 2

GivenSquares == <<2, 7, 13, 15>>

FilledSquares == {GivenSquares[k] : k \in 1 .. Min(MaxGivens, Len(GivenSquares))}

easyboard == <<0, 0, 0, 4, 3, 0, 0, 0, 2, 0, 0, 0, 0, 0, 0, 1>>

hardboard == <<0, 0, 0, 0, 2, 0, 4, 0, 0, 2, 3, 0, 3, 0, 0, 0>>

Puzzles ==
    {[k \in 1 .. NumSquares |-> IF (k - 1) \in FilledSquares THEN a[k - 1] ELSE 0] :
        a \in [FilledSquares -> 0 .. N]}
    \cup {easyboard, hardboard, Append(easyboard, 0)}

\* How a puzzle is written: the rune for an unassigned square, with or
\* without the grid drawing between the squares, with or without a first
\* rune that is no board rune.
Layouts ==
    {[blank |-> ".", grid |-> FALSE, lead |-> FALSE],
     [blank |-> "0", grid |-> FALSE, lead |-> FALSE],
     [blank |-> ".", grid |-> TRUE, lead |-> TRUE]}

Separator(k) ==
    IF k % N = 0 THEN "\n" ELSE IF k % BlockSide = 0 THEN "|" ELSE " "

Render(puzzle, layout) ==
    LET cell(k) == IF puzzle[k] = 0 THEN layout.blank ELSE DigitRunes[puzzle[k] + 1]
        plain == [k \in 1 .. Len(puzzle) |-> cell(k)]
        drawn == [j \in 1 .. 2 * Len(puzzle) |->
                     IF j % 2 = 1 THEN cell((j + 1) \div 2) ELSE Separator(j \div 2)]
        body == IF layout.grid THEN drawn ELSE plain
    IN  IF layout.lead THEN <<"x">> \o body ELSE body

Texts ==
    {Render(puzzle, layout) : puzzle \in Puzzles, layout \in Layouts}
    \cup {SubSeq(Render(easyboard, layout), 2, NumSquares) : layout \in Layouts}

(***************************************************************************)
(* The callers.                                                            *)
(***************************************************************************)
Init ==
    /\ boards = <<emptyBoard>>
    /\ stack = <<>>
    /\ rv = TRUE
    /\ op = Call("new", -1, 0, FALSE, TRUE, nil)
    /\ text = <<>>
    /\ err = NoError

\* The caller's board has come through every call so far without a
\* contradiction.
Usable == Idle /\ rv /\ op.name \in {"new", "assign", "eliminate"}

\* assign(values, square, digit)
CallAssign(square, digit) ==
    /\ Usable
    /\ stack' = <<Frame("assign", "loop", square, digit, 1)>>
    /\ op' = Call("assign", square, digit, isMember(boards[1][square], digit),
                  op.byAssign, boards[1])
    /\ UNCHANGED <<boards, rv, text, err>>

\* eliminate(values, square, digit)
CallEliminate(square, digit) ==
    /\ Usable
    /\ stack' = <<Frame("eliminate", "entry", square, digit, 0)>>
    /\ op' = Call("eliminate", square, digit, isMember(boards[1][square], digit),
                  FALSE, boards[1])
    /\ UNCHANGED <<boards, rv, text, err>>

\* vresult, solved := search(values), on a board built by assign and
\* eliminate or returned by parseBoard.
CallSolve ==
    /\ Idle /\ rv /\ op.name \in {"new", "assign", "eliminate", "parse"}
    /\ stack' = <<Frame("search", "entry", -1, 0, 0)>>
    /\ op' = Call("solve", -1, 0, FALSE, op.byAssign, nil)
    /\ UNCHANGED <<boards, rv, text, err>>

\* values, err := parseBoard(str)
CallParse(str) ==
    /\ Idle /\ op.name = "new"
    /\ text' = str
    /\ stack' = <<Frame("parse", "entry", -1, 0, 0)>>
    /\ op' = Call("parse", -1, 0, FALSE, TRUE, nil)
    /\ UNCHANGED <<boards, rv, err>>

\* isSolved on the board the last call handed back.
IsSolved ==
    /\ Idle /\ op.name # "isSolved" /\ out # nil
    /\ rv' = isSolved(out)
    /\ op' = Call("isSolved", -1, 0, FALSE, op.byAssign, nil)
    /\ UNCHANGED <<boards, stack, text, err>>

\* vcopy[sq] = ds, on a solved board that parseBoard returned.
Modify(square, ds) ==
    /\ Idle /\ op.name = "parse" /\ rv /\ isSolved(out)
    /\ boards' = SetBoard([out EXCEPT ![square] = ds])
    /\ op' = Call("modify", square, 0, FALSE, FALSE, nil)
    /\ UNCHANGED <<stack, rv, text, err>>

\* values := emptyBoard()
New ==
    /\ Idle /\ op.name # "new"
    /\ boards' = <<emptyBoard>>
    /\ rv' = TRUE
    /\ op' = Call("new", -1, 0, FALSE, TRUE, nil)
    /\ text' = <<>>
    /\ err' = NoError
    /\ UNCHANGED stack

Next ==
    \/ \E c \in AssignCalls : CallAssign(c[1], c[2])
    \/ \E c \in EliminateCalls : CallEliminate(c[1], c[2])
    \/ CallSolve
    \/ \E str \in Texts : CallParse(str)
    \/ IsSolved
    \/ \E square \in Squares, ds \in SUBSET AllDigits : Modify(square, ds)
    \/ New
    \/ AssignLoop
    \/ AssignCalled
    \/ EliminateEntry
    \/ EliminatePeers
    \/ EliminatePeerCalled
    \/ EliminateUnits
    \/ EliminateUnitCalled
    \/ SearchEntry
    \/ SearchDigits
    \/ SearchAssigned
    \/ SearchSearched
    \/ ParseEntry
    \/ ParseLoop
    \/ ParseCalled

Spec == Init /\ [][Next]_vars

(***************************************************************************)
(* What the properties speak of, stated from the rules of the puzzle and   *)
(* not from the tables of New.                                             *)
(***************************************************************************)
RowOf(sq) == sq \div N

ColOf(sq) == sq % N

BlockOf(sq) == (RowOf(sq) \div BlockSide) * BlockSide + (ColOf(sq) \div BlockSide)

SameUnit(a, b) == RowOf(a) = RowOf(b) \/ ColOf(a) = ColOf(b) \/ BlockOf(a) = BlockOf(b)

PeerSet(sq) == {p \in Squares \ {sq} : SameUnit(sq, p)}

Houses ==
    {{sq \in Squares : RowOf(sq) = k} : k \in 0 .. N - 1}
    \cup {{sq \in Squares : ColOf(sq) = k} : k \in 0 .. N - 1}
    \cup {{sq \in Squares : BlockOf(sq) = k} : k \in 0 .. N - 1}

\* Every square has exactly one candidate and every unit covers all digits.
Solved(board) ==
    /\ \A sq \in Squares : Cardinality(board[sq]) = 1
    /\ \A h \in Houses : UNION {board[sq] : sq \in h} = AllDigits

\* The complete valid grids, row by row.
RowFills == {p \in [0 .. N - 1 -> AllDigits] : \A i, j \in 0 .. N - 1 : i # j => p[i] # p[j]}

\* The digit a grid, a sequence of rows, has in square sq.
GridAt(g, sq) == g[RowOf(sq) + 1][ColOf(sq)]

\* No two squares of the rows filled so far that share a unit hold the same digit.
Fits(g) ==
    \A a, b \in {sq \in Squares : RowOf(sq) < Len(g)} :
        (a # b /\ SameUnit(a, b)) => GridAt(g, a) # GridAt(g, b)

RECURSIVE GridsOfRows(_)
\* The valid fillings of the first k rows.
GridsOfRows(k) ==
    IF k = 0 THEN {<<>>}
    ELSE {h \in {Append(g, r) : g \in GridsOfRows(k - 1), r \in RowFills} : Fits(h)}

Grids == GridsOfRows(N)

\* Some complete valid grid picks each square's digit from its candidates.
HasGrid(board) ==
    \E g \in Grids : \A sq \in Squares : GridAt(g, sq) \in board[sq]

\* The squares of unit h that admit digit d.
PlacesFor(board, h, d) == {sq \in h : d \in board[sq]}

\* The runes parseBoard reads, and the given of a square in a text.
BoardRunes == {DigitRunes[k] : k \in 1 .. Len(DigitRunes)} \cup {"."}

Tokens(str) == SelectSeq(str, LAMBDA r : r \in BoardRunes)

Given(str, sq) ==
    LET r == Tokens(str)[sq + 1] IN IF r \in {".", "0"} THEN 0 ELSE RuneDigit(r)

\* How many search frames are on a stack.
SearchDepth(st) == Cardinality({k \in 1 .. Len(st) : st[k].fn = "search"})

Returned(name) == Idle /\ op.name = name

(***************************************************************************)
(* The properties.                                                         *)
(***************************************************************************)
\* C1: on a board obtained from emptyBoard by zero or more successful
\* assign calls, a search that returns success returns a solved board.
SearchSuccessIsSolved ==
    (Returned("solve") /\ rv /\ op.byAssign) => Solved(out)

\* C2: solve on the board of emptyBoard returns success together with a
\* solved board.
SolveEmptyBoard ==
    (Returned("solve") /\ boards[1] = emptyBoard) => (rv /\ isSolved(out))

\* C3: search returns failure only if no complete valid grid picks each
\* square's digit from the candidates of the board it was given.
SearchComplete ==
    (Returned("solve") /\ ~rv) => ~HasGrid(boards[1])

SearchFailed == Returned("solve") /\ ~rv /\ ~HasGrid(boards[1])

\* C4: after assign(board, sq, d) returned true, board[sq] is exactly {d}
\* and no peer of sq has d as a candidate.
AssignConsistency ==
    (Returned("assign") /\ rv) =>
        /\ boards[1][op.square] = {op.digit}
        /\ \A p \in PeerSet(op.square) : op.digit \notin boards[1][p]

AssignSucceeded ==
    /\ Returned("assign") /\ rv
    /\ \E p \in PeerSet(op.square) : Cardinality(boards[1][p]) = 1

\* C5: parseBoard returns a board exactly when the text holds NumSquares
\* board runes and no assign of a given fails; a wrong count and the first
\* given whose assign fails end it with an error and no board.
ParseResult ==
    Returned("parse") =>
        /\ rv <=> err = NoError
        /\ rv <=> out # nil
        /\ Len(Tokens(text)) # NumSquares <=> err = DigitsError(Len(Tokens(text)))
        /\ rv => \A sq \in Squares : Given(text, sq) # 0 => out[sq] = {Given(text, sq)}
        /\ err[1] = "contradiction" =>
               /\ Len(Tokens(text)) = NumSquares
               /\ err[2] # 0
               /\ err[2] = Given(text, err[3])

ParseStep ==
    (op.name = "parse" /\ Len(stack) = 1) =>
        /\ (Top.pc = "called" /\ ~rv) => Idle'
        /\ Idle' => (rv' <=> (Len(Tokens(text)) = NumSquares /\ ~(Top.pc = "called" /\ ~rv)))

ParseContract == [](ParseResult) /\ [][ParseStep]_vars

ParseContradiction == Returned("parse") /\ err[1] = "contradiction"

\* C6: isSolved is true exactly when every square has one candidate and
\* every unit covers all the digits.
IsSolvedCorrect ==
    Returned("isSolved") => (rv <=> Solved(out))

RepeatedDigitNotSolved ==
    /\ Returned("isSolved") /\ ~rv
    /\ \A sq \in Squares : Cardinality(out[sq]) = 1

\* C7: eliminate of a digit that is no candidate of the square returns true
\* at once and leaves every candidate set as it was.
EliminateAbsentIsNoop ==
    [][(Running("eliminate", "entry") /\ ~(Top.digit \in Board[Top.square])) =>
          /\ boards' = boards
          /\ rv'
          /\ stack' = SubSeq(stack, 1, Len(stack) - 1)]_vars

EliminatedAbsent == Returned("eliminate") /\ ~op.had /\ rv

\* C8: after assign and eliminate calls that all returned true, no square
\* has an empty candidate set and every unit has a square for every digit.
NoContradiction ==
    Usable =>
        /\ \A sq \in Squares : boards[1][sq] # {}
        /\ \A h \in Houses, d \in AllDigits : PlacesFor(boards[1], h, d) # {}

PropagatedBoard ==
    /\ Usable /\ op.name = "eliminate" /\ op.had
    /\ \E sq \in Squares \ {op.square} : boards[1][sq] # AllDigits

\* C9: after assign and eliminate calls that all returned true, (a) no peer
\* of a square with the single candidate d has d, and (b) a square that is
\* the only one of a unit to admit d has d as its only candidate.
PropagationFixedPoint ==
    Usable =>
        /\ \A sq \in Squares, d \in AllDigits :
               boards[1][sq] = {d} => \A p \in PeerSet(sq) : d \notin boards[1][p]
        /\ \A h \in Houses, d \in AllDigits :
               \A sq \in h : PlacesFor(boards[1], h, d) = {sq} => boards[1][sq] = {d}

ForcedPlacement ==
    /\ Usable /\ op.name = "eliminate" /\ op.had
    /\ \E h \in Houses, d \in AllDigits \ {op.digit} :
           \E sq \in h \ {op.square} : PlacesFor(boards[1], h, d) = {sq}

\* C10: search never changes the board of a search call that is still
\* running: trials work on copies, and a failed search hands back its input.
SearchKeepsValues ==
    op.name = "solve" =>
        \A k \in 1 .. Min(SearchDepth(stack), Len(boards')) : boards'[k] = boards[k]

SearchIsolation ==
    [](Returned("solve") /\ ~rv => Len(boards) = 1) /\ [][SearchKeepsValues]_vars

NextDigitAfterFailedTrial ==
    /\ Running("search", "digits")
    /\ Top.i <= N
    /\ Top.i \in Board[Top.square]
    /\ \E d \in 1 .. Top.i - 1 : d \in Board[Top.square]

\* The squares of a board with more than one candidate.
OpenSquares(board) == {sq \in Squares : Cardinality(board[sq]) > 1}

\* The open square with the fewest candidates, the lowest index among equals.
MostConstrained(board) ==
    CHOOSE sq \in OpenSquares(board) :
        \A other \in OpenSquares(board) :
            \/ Cardinality(board[sq]) < Cardinality(board[other])
            \/ Cardinality(board[sq]) = Cardinality(board[other]) /\ sq <= other

\* C11: when some square has more than one candidate, search branches on
\* the square with the fewest candidates above one, the lowest index among
\* equals; it reports success without branching only when there is none.
SearchChoosesMostConstrained ==
    [][Running("search", "entry") =>
          IF OpenSquares(Board) = {}
          THEN rv' /\ Len(stack') = Len(stack) - 1
          ELSE /\ Len(stack') = Len(stack)
               /\ stack'[Len(stack')].pc = "digits"
               /\ stack'[Len(stack')].square = MostConstrained(Board)]_vars

\* The steps of the running call: once made, a call runs on by itself.
Step ==
    \/ AssignLoop
    \/ AssignCalled
    \/ EliminateEntry
    \/ EliminatePeers
    \/ EliminatePeerCalled
    \/ EliminateUnits
    \/ EliminateUnitCalled
    \/ SearchEntry
    \/ SearchDigits
    \/ SearchAssigned
    \/ SearchSearched
    \/ ParseEntry
    \/ ParseLoop
    \/ ParseCalled

FairSpec == Init /\ [][Next]_vars /\ WF_vars(Step)

\* The number of candidates on a board.
Candidates(board) ==
    Cardinality({c \in Squares \X AllDigits : c[2] \in board[c[1]]})

\* An eliminate that does not return at once removes one candidate.
EliminateRemovesOne ==
    (Running("eliminate", "entry") /\ Top.digit \in Board[Top.square]) =>
        /\ Len(boards') = Len(boards)
        /\ Candidates(boards'[Len(boards')]) = Candidates(Board) - 1

\* assign and eliminate never add a candidate.
NeverAdds ==
    (~Idle /\ Top.fn \in {"assign", "eliminate"}) =>
        /\ Len(boards') = Len(boards)
        /\ \A k \in 1 .. Len(boards) : \A sq \in Squares : boards'[k][sq] \subseteq boards[k][sq]

\* A recursive search call gets a board with fewer candidates than its
\* caller's board.
SearchDescends ==
    (Running("search", "assigned") /\ rv) =>
        Candidates(boards[Len(boards)]) < Candidates(boards[Len(boards) - 1])

\* C12: every call of assign, eliminate and search returns: an eliminate
\* that does not return at once removes one candidate, no candidate is ever
\* added, and a recursive search runs on a board with fewer candidates.
CallsTerminate ==
    /\ (~Idle) ~> Idle
    /\ [][EliminateRemovesOne /\ NeverAdds /\ SearchDescends]_vars

RecursiveSearchReturned ==
    /\ Running("search", "searched")
    /\ Len(boards) > 2

\* Grid g lies within a board.
Within(g, board) == \A sq \in Squares : GridAt(g, sq) \in board[sq]

\* The call the caller made agrees with grid g: assign of g's digit, or
\* eliminate of a digit that is not g's.
AgreesWith(g) ==
    IF op.name = "assign" THEN GridAt(g, op.square) = op.digit
    ELSE GridAt(g, op.square) # op.digit

\* C13: a grid within the board before assign(board, sq, G[sq]), or before
\* eliminate(board, sq, d) with d # G[sq], makes the call return true and
\* is still within the board afterwards.
PropagationKeepsSolutions ==
    (Idle /\ op.name \in {"assign", "eliminate"}) =>
        \A g \in Grids :
            (Within(g, op.before) /\ AgreesWith(g)) => (rv /\ Within(g, boards[1]))

SolutionKeptThroughPropagation ==
    /\ Idle /\ op.name \in {"assign", "eliminate"} /\ op.had
    /\ \E sq \in Squares \ {op.square} : boards[1][sq] # op.before[sq]
    /\ \E g \in Grids : Within(g, op.before) /\ AgreesWith(g)
    /\ \E g \in Grids : Within(g, op.before) /\ ~Within(g, boards[1])

====
